---- MODULE Spec2Model ----
(***************************************************************************)
(* Model of languages/assemblyscript/maps.go: readMap and writeMap, the   *)
(* marshalling of AssemblyScript Map<K,V> objects between guest linear    *)
(* memory and host values.                                                *)
(***************************************************************************)
EXTENDS Integers, Naturals, Sequences, FiniteSets, TLC

(***************************************************************************)
(* uint32 arithmetic.  A uint32 is a pair <<hi, lo>> of 16-bit limbs, so  *)
(* that Go's wraparound is computed exactly for all 2^32 values.          *)
(***************************************************************************)
Limb == 2^16

U32FromNat(n) == <<(n \div Limb) % Limb, n % Limb>>

\* Defined for u < 2^31 only.
U32ToNat(u) == u[1] * Limb + u[2]

U32Fits(u) == u[1] < 2^15

U32Lt(a, b) == a[1] < b[1] \/ (a[1] = b[1] /\ a[2] < b[2])

U32Shl1(a) == <<(a[1] * 2 + (a[2] * 2) \div Limb) % Limb, (a[2] * 2) % Limb>>

U32Mul8(a) == U32Shl1(U32Shl1(U32Shl1(a)))

U32Div3(a) == <<a[1] \div 3, ((a[1] % 3) * Limb + a[2]) \div 3>>

U32Dec(a) == IF a[2] > 0 THEN <<a[1], a[2] - 1>>
             ELSE <<(a[1] + Limb - 1) % Limb, Limb - 1>>

(***************************************************************************)
(* writeMap: capacities and mask (maps.go 152-160).                       *)
(***************************************************************************)
\* Largest element count of the small range the capacity loop is run on.
MaxCount == 20

\* 2^k as a uint32
Pow2U32(k) == IF k < 16 THEN <<0, 2^k>> ELSE <<2^(k - 16), 0>>

\* Every power of two above the small range and its successor, up to the
\* counts at which 32-bit wraparound sets in, and the largest uint32.
BigCounts ==
    UNION { { Pow2U32(k), <<Pow2U32(k)[1], Pow2U32(k)[2] + 1>> } : k \in 5..31 }
        \cup { <<Limb - 1, Limb - 1>> }

CapCounts == { U32FromNat(n) : n \in 0..MaxCount } \cup BigCounts

\* bucketsCapacity := 4; entriesCapacity := 4; bucketsMask := bucketsCapacity - 1
InitialCaps == [bucketsCapacity |-> U32FromNat(4),
                entriesCapacity |-> U32FromNat(4),
                bucketsMask     |-> U32Dec(U32FromNat(4))]

\* for bucketsCapacity < mapLen
CapLoopCond(c, mapLen) == U32Lt(c.bucketsCapacity, mapLen)

\* Mutant: entriesCapacity follows 8/3 of the capacity before doubling.
CapLoopBodyStale(c) ==
    LET bc == U32Shl1(c.bucketsCapacity) IN
    [bucketsCapacity |-> bc,
     entriesCapacity |-> U32Div3(U32Mul8(c.bucketsCapacity)),
     bucketsMask     |-> U32Dec(bc)]

\* bucketsCapacity <<= 1; entriesCapacity = bucketsCapacity * 8 / 3;
\* bucketsMask = bucketsCapacity - 1
CapLoopBody(c) ==
    LET bc == U32Shl1(c.bucketsCapacity) IN
    [bucketsCapacity |-> bc,
     entriesCapacity |-> U32Div3(U32Mul8(bc)),
     bucketsMask     |-> U32Dec(bc)]

RECURSIVE CapLoop(_, _)
CapLoop(c, mapLen) ==
    IF CapLoopCond(c, mapLen) THEN CapLoop(CapLoopBody(c), mapLen) ELSE c

(***************************************************************************)
(* Bit operations on naturals (Go's & and &^ on uint32 operands).         *)
(***************************************************************************)
RECURSIVE BitAnd(_, _)
BitAnd(a, b) ==
    IF a = 0 \/ b = 0 THEN 0
    ELSE (a % 2) * (b % 2) + 2 * BitAnd(a \div 2, b \div 2)

\* a & ^b
RECURSIVE BitAndNot(_, _)
BitAndNot(a, b) ==
    IF a = 0 THEN 0
    ELSE (a % 2) * (1 - (b % 2)) + 2 * BitAndNot(a \div 2, b \div 2)

Max3(a, b, c) ==
    IF a >= b /\ a >= c THEN a ELSE IF b >= c THEN b ELSE c

(***************************************************************************)
(* Types.  typ is the pair of subtypes GetMapSubtypes resolves it to.     *)
(***************************************************************************)
TypeNames == {"u8", "u16", "i32", "u64", "string"}

GetMapSubtypes(t) == t

\* Type names the size computations are run on by themselves.
SizeTypes ==
    {"bool", "i8", "u8", "i16", "u16", "i32", "u32", "f32", "i64", "u64", "f64",
     "isize", "usize", "string"}

GetSizeOfType(t) ==
    CASE t \in {"bool", "i8", "u8"}   -> 1
      [] t \in {"i16", "u16"}        -> 2
      [] t \in {"i64", "u64", "f64"} -> 8
      [] OTHER                       -> 4

\* Mutant: the 64-bit case is lost, every type gets a 4-byte offset.
getSizeForOffsetNarrow(t) == 4

getSizeForOffset(t) ==
    IF t \in {"u64", "i64", "f64"} THEN 8 ELSE 4

bucketSize == 4

taggedNextSize == 4

\* entryAlign := max(keySize, valueSize, 4) - 1
entryAlignOf(t) ==
    Max3(GetSizeOfType(GetMapSubtypes(t)[1]),
         GetSizeOfType(GetMapSubtypes(t)[2]), 4) - 1

\* entrySize := (keySize + valueSize + taggedNextSize + entryAlign) & ^entryAlign
entrySizeOf(t) ==
    BitAndNot(GetSizeOfType(GetMapSubtypes(t)[1])
                + GetSizeOfType(GetMapSubtypes(t)[2])
                + taggedNextSize + entryAlignOf(t),
              entryAlignOf(t))

valueOffsetOf(t) == getSizeForOffset(GetMapSubtypes(t)[1])

taggedNextOffsetOf(t) ==
    getSizeForOffset(GetMapSubtypes(t)[2]) + valueOffsetOf(t)

\* Mutant: every entry is placed in slot 0.
entryOffsetOfSlotZero(base, size, idx) == base

\* entryOffset := entriesBufferOffset + (entrySize * uint32(i))
entryOffsetOf(base, size, idx) == base + size * idx

(***************************************************************************)
(* Host values.  A scalar is a natural, a string a sequence of UTF-16     *)
(* code units.  A native mapping is given by the sequence of its          *)
(* key/value pairs in the order rv.MapKeys() happens to yield them.       *)
(***************************************************************************)
\* Largest number of entries of a written map.
MaxEntries == 2

ValuesOf(t) ==
    CASE t = "string" -> {<<>>, <<97>>, <<353>>}
      [] t = "ArrayBuffer" -> {<<>>, <<7>>, <<7, 9>>}
      [] t = "u8"     -> {1, 5, 2}
      [] OTHER        -> {1, 5, 258}

\* Values used on the value side of an entry.
PayloadsOf(t) ==
    CASE t = "string" -> {<<>>, <<353>>}
      [] t = "u8"     -> {0, 7}
      [] OTHER        -> {0, 263}

RECURSIVE LEBytes(_, _)
LEBytes(v, n) ==
    IF n = 0 THEN <<>> ELSE <<v % 256>> \o LEBytes(v \div 256, n - 1)

RECURSIVE FromLEBytes(_)
FromLEBytes(bs) ==
    IF bs = <<>> THEN 0 ELSE bs[1] + 256 * FromLEBytes(Tail(bs))

RECURSIVE EncodeUTF16(_)
EncodeUTF16(s) ==
    IF s = <<>> THEN <<>>
    ELSE <<s[1] % 256, s[1] \div 256>> \o EncodeUTF16(Tail(s))

RECURSIVE DecodeUTF16(_)
DecodeUTF16(bs) ==
    IF Len(bs) < 2 THEN <<>>
    ELSE <<bs[1] + 256 * bs[2]>> \o DecodeUTF16(Tail(Tail(bs)))

RECURSIVE HashBytes(_, _)
HashBytes(bs, h) ==
    IF bs = <<>> THEN h
    ELSE HashBytes(Tail(bs), (h * 31 + bs[1] + 1) % Limb)

\* The dynamic type of a host value is string exactly for the type "string".
IsString(t) == t = "string"

\* hash.GetHashCode: of the UTF-16 bytes for a string, of the scalar otherwise.
GetHashCode(t, key) ==
    IF IsString(t) THEN HashBytes(EncodeUTF16(key), 3)
    ELSE (key * 31 + 17) % Limb

\* rKeyType.Comparable(): the host type of an ArrayBuffer is a byte slice, which
\* is not comparable; scalars and strings are.
Comparable(t) == t # "ArrayBuffer"

\* rv.Kind() of the host values handed to writeMap: a native mapping, the
\* pair-list wrapper readMap produces (a struct), a plain slice.
Kinds == {"map", "struct", "slice"}

RECURSIVE DistinctKeys(_)
DistinctKeys(s) ==
    \/ s = <<>>
    \/ /\ \A j \in 2..Len(s) : s[j][1] # s[1][1]
       /\ DistinctKeys(Tail(s))

MapsOf(t) ==
    { s \in UNION { [1..n -> ValuesOf(t[1]) \X PayloadsOf(t[2])] : n \in 0..MaxEntries } :
        DistinctKeys(s) }

\* The mapping a pair sequence stands for (a later pair wins).
RECURSIVE AsMapping(_)
AsMapping(s) ==
    IF s = <<>> THEN <<>>
    ELSE LET rest == AsMapping(SubSeq(s, 1, Len(s) - 1))
             kv   == s[Len(s)]
         IN [k \in (DOMAIN rest) \cup {kv[1]} |->
                IF k = kv[1] THEN kv[2] ELSE rest[k]]

(***************************************************************************)
(* Guest linear memory and allocator.                                     *)
(***************************************************************************)
\* Size of the guest's linear memory, in bytes.
MemSize == 192

Addr == 0..(MemSize - 1)

\* Bytes of the allocation header in front of a block: runtime id, byte length.
BlockOverhead == 2 * 4

ArrayBufferId == 1

StringId == 2

\* def.Id of the map type
MapTypeId(t) == 3

InRange(addr, n) == addr >= 0 /\ addr + n <= MemSize

ReadBytes(m, addr, n) == [j \in 1..n |-> m[addr + j - 1]]

WriteBytes(m, addr, bs) ==
    [a \in Addr |-> IF a >= addr /\ a < addr + Len(bs) THEN bs[a - addr + 1] ELSE m[a]]

\* mem.ReadUint32Le
ReadUint32Le(m, addr) ==
    IF InRange(addr, 4) THEN [ok |-> TRUE, v |-> FromLEBytes(ReadBytes(m, addr, 4))]
    ELSE [ok |-> FALSE, v |-> 0]

\* mem.WriteUint32Le
WriteUint32Le(m, addr, v) ==
    IF InRange(addr, 4) THEN [ok |-> TRUE, mem |-> WriteBytes(m, addr, LEBytes(v, 4))]
    ELSE [ok |-> FALSE, mem |-> m]

AlignUp4(n) == ((n + 3) \div 4) * 4

\* allocateWasmMemory: a fresh zero-filled block with its id and byte length
\* stored in the two words in front of it.
allocateWasmMemory(h, size, id) ==
    LET p   == h.heapTop + BlockOverhead
        top == AlignUp4(p + size)
    IN IF top > MemSize
       THEN [ok |-> FALSE, ptr |-> 0, heap |-> h]
       ELSE [ok |-> TRUE, ptr |-> p,
             heap |-> [mem |-> [a \in Addr |->
                                  IF a >= p - 8 /\ a < p - 4 THEN LEBytes(id, 4)[a - (p - 8) + 1]
                                  ELSE IF a >= p - 4 /\ a < p THEN LEBytes(size, 4)[a - (p - 4) + 1]
                                  ELSE IF a >= p /\ a < top THEN 0
                                  ELSE h.mem[a]],
                       heapTop |-> top,
                       allocs |-> Append(h.allocs, [ptr |-> p, size |-> size, id |-> id])]]

\* writeRawBytes: allocate a block and copy the bytes into it.
writeRawBytes(h, bs, id) ==
    LET a == allocateWasmMemory(h, Len(bs), id)
    IN IF ~a.ok THEN a
       ELSE [ok |-> TRUE, ptr |-> a.ptr,
             heap |-> [a.heap EXCEPT !.mem = WriteBytes(a.heap.mem, a.ptr, bs)]]

\* writeField: a scalar is written in place (no allocation, pointer 0); a
\* string is allocated and its pointer is written in place.
writeField(h, t, addr, value) ==
    IF t = "string"
    THEN LET a == writeRawBytes(h, EncodeUTF16(value), StringId)
         IN IF ~a.ok \/ ~InRange(addr, 4) THEN [ok |-> FALSE, ptr |-> 0, heap |-> a.heap]
            ELSE [ok |-> TRUE, ptr |-> a.ptr,
                  heap |-> [a.heap EXCEPT !.mem = WriteBytes(a.heap.mem, addr, LEBytes(a.ptr, 4))]]
    ELSE IF t = "ArrayBuffer"
    THEN LET a == writeRawBytes(h, value, ArrayBufferId)
         IN IF ~a.ok \/ ~InRange(addr, 4) THEN [ok |-> FALSE, ptr |-> 0, heap |-> a.heap]
            ELSE [ok |-> TRUE, ptr |-> a.ptr,
                  heap |-> [a.heap EXCEPT !.mem = WriteBytes(a.heap.mem, addr, LEBytes(a.ptr, 4))]]
    ELSE IF ~InRange(addr, GetSizeOfType(t)) THEN [ok |-> FALSE, ptr |-> 0, heap |-> h]
         ELSE [ok |-> TRUE, ptr |-> 0,
               heap |-> [h EXCEPT !.mem = WriteBytes(h.mem, addr, LEBytes(value, GetSizeOfType(t)))]]

\* readField: the inverse of writeField.
readField(m, t, addr) ==
    IF t = "string"
    THEN LET p == ReadUint32Le(m, addr)
             n == ReadUint32Le(m, p.v - 4)
         IN IF ~p.ok \/ ~n.ok \/ ~InRange(p.v, n.v) THEN [ok |-> FALSE, v |-> 0]
            ELSE [ok |-> TRUE, v |-> DecodeUTF16(ReadBytes(m, p.v, n.v))]
    ELSE IF t = "ArrayBuffer"
    THEN LET p == ReadUint32Le(m, addr)
             n == ReadUint32Le(m, p.v - 4)
         IN IF ~p.ok \/ ~n.ok \/ ~InRange(p.v, n.v) THEN [ok |-> FALSE, v |-> 0]
            ELSE [ok |-> TRUE, v |-> ReadBytes(m, p.v, n.v)]
    ELSE IF ~InRange(addr, GetSizeOfType(t)) THEN [ok |-> FALSE, v |-> 0]
         ELSE [ok |-> TRUE, v |-> FromLEBytes(ReadBytes(m, addr, GetSizeOfType(t)))]

(***************************************************************************)
(* readMap (maps.go 18-129), as a function of the memory it reads.        *)
(* faults is the set of read points at which a read failure is simulated. *)
(***************************************************************************)
HeaderFields == {0, 4, 8, 12, 16, 20}

\* Read point of the byte length word, 4 bytes in front of the entries buffer.
LengthWord == 0 - 4

ReadPoints == HeaderFields \cup {LengthWord}

Nil == "nil"

\* mem.ReadUint32Le at a header field or at the length word, with simulated faults
ReadAt(m, addr, point, faults) ==
    IF point \in faults THEN [ok |-> FALSE, v |-> 0] ELSE ReadUint32Le(m, addr)

\* for i := uint32(0); i < entriesCount; i++ { ... m.SetMapIndex(k, v) }
RECURSIVE readEntries(_, _, _, _, _, _, _)
readEntries(m, t, entries, stride, entriesCount, idx, acc) ==
    IF idx >= entriesCount THEN [kind |-> "map", data |-> acc, err |-> Nil]
    ELSE LET p == entries + (idx * stride)
             k == readField(m, GetMapSubtypes(t)[1], p)
             v == readField(m, GetMapSubtypes(t)[2], p + getSizeForOffset(GetMapSubtypes(t)[1]))
         IN IF ~k.ok THEN [kind |-> Nil, data |-> <<>>, err |-> "failed to read key"]
            ELSE IF ~v.ok THEN [kind |-> Nil, data |-> <<>>, err |-> "failed to read value"]
            ELSE readEntries(m, t, entries, stride, entriesCount, idx + 1,
                             [x \in (DOMAIN acc) \cup {k.v} |->
                                 IF x = k.v THEN v.v ELSE acc[x]])

\* Mutant: every pair is decoded from entry 0.
pairOffsetNoStride(entries, stride, idx) == entries

\* p := entries + uint32(i)*entrySize
pairOffset(entries, stride, idx) == entries + idx * stride

\* for i := 0; i < size; i++ { ... s.Index(i) ... }; the slice is wrapped into
\* the struct with the single field Data tagged $mapdata
RECURSIVE readPairs(_, _, _, _, _, _, _)
readPairs(m, t, entries, stride, size, idx, acc) ==
    IF idx >= size THEN [kind |-> "mapdata", data |-> acc, err |-> Nil]
    ELSE LET p == pairOffset(entries, stride, idx)
             k == readField(m, GetMapSubtypes(t)[1], p)
             v == readField(m, GetMapSubtypes(t)[2], p + getSizeForOffset(GetMapSubtypes(t)[1]))
         IN IF ~k.ok THEN [kind |-> Nil, data |-> <<>>, err |-> "failed to read key"]
            ELSE IF ~v.ok THEN [kind |-> Nil, data |-> <<>>, err |-> "failed to read value"]
            ELSE readPairs(m, t, entries, stride, size, idx + 1, Append(acc, <<k.v, v.v>>))

\* Mutant: the ok of the entries capacity read is not looked at.
readHeaderUnchecked(m, off, faults) ==
    LET entries         == ReadAt(m, off + 8, 8, faults)
        entriesCapacity == ReadAt(m, off + 12, 12, faults)
        entriesCount    == ReadAt(m, off + 20, 20, faults)
        byteLength      == IF entries.v < 4 THEN [ok |-> FALSE, v |-> 0]
                           ELSE ReadAt(m, entries.v - 4, LengthWord, faults)
        h == [entries |-> entries.v, entriesCapacity |-> entriesCapacity.v,
              entriesCount |-> entriesCount.v, byteLength |-> byteLength.v]
    IN IF ~entries.ok THEN [err |-> "failed to read map entries pointer", h |-> h]
       ELSE IF ~entriesCount.ok THEN [err |-> "failed to read map entries count", h |-> h]
       ELSE IF ~byteLength.ok
            THEN [err |-> "failed to read map entries buffer length", h |-> h]
       ELSE [err |-> Nil, h |-> h]

\* lines 20-56: the header words readMap reads, in the order it reads them
readHeader(m, off, faults) ==
    LET entries         == ReadAt(m, off + 8, 8, faults)
        entriesCapacity == ReadAt(m, off + 12, 12, faults)
        entriesCount    == ReadAt(m, off + 20, 20, faults)
        \* entries - 4 wraps below 4 to an address beyond any memory
        byteLength      == IF entries.v < 4 THEN [ok |-> FALSE, v |-> 0]
                           ELSE ReadAt(m, entries.v - 4, LengthWord, faults)
        h == [entries |-> entries.v, entriesCapacity |-> entriesCapacity.v,
              entriesCount |-> entriesCount.v, byteLength |-> byteLength.v]
    IN IF ~entries.ok THEN [err |-> "failed to read map entries pointer", h |-> h]
       ELSE IF ~entriesCapacity.ok
            THEN [err |-> "failed to read map entries capacity", h |-> h]
       ELSE IF ~entriesCount.ok THEN [err |-> "failed to read map entries count", h |-> h]
       ELSE IF ~byteLength.ok
            THEN [err |-> "failed to read map entries buffer length", h |-> h]
       ELSE [err |-> Nil, h |-> h]

readMap(m, t, off, faults) ==
    LET r == readHeader(m, off, faults) IN
    IF r.err # Nil THEN [kind |-> Nil, data |-> <<>>, err |-> r.err]
    \* entrySize := byteLength / entriesCapacity
    ELSE IF r.h.entriesCapacity = 0
         THEN [kind |-> Nil, data |-> <<>>, err |-> "panic: integer divide by zero"]
    ELSE IF Comparable(GetMapSubtypes(t)[1])
         THEN readEntries(m, t, r.h.entries, r.h.byteLength \div r.h.entriesCapacity,
                          r.h.entriesCount, 0, <<>>)
    ELSE readPairs(m, t, r.h.entries, r.h.byteLength \div r.h.entriesCapacity,
                   r.h.entriesCount, 0, <<>>)

(***************************************************************************)
(* State.                                                                 *)
(***************************************************************************)
VARIABLES
    pc,                   \* position in writeMap / its caller
    typ, data, kind,      \* arguments of writeMap: type, value, rv.Kind()
    mem, heapTop, allocs, \* guest memory; allocator: break, blocks handed out
    pinned,               \* guest: offsets currently pinned
    pins,                 \* writeMap: var pins
    bucketsCapacity, entriesCapacity, bucketsMask,
    bucketsBufferOffset, entriesBufferOffset,
    i, hashCode, ptr,     \* writeMap: loop locals
    hdrField,             \* index of the next header field to write
    deferIdx,             \* position of the deferred loop in pins
    offset, err,          \* writeMap: named results
    retErr,               \* the error operand of the return statement executed
    pinCalls, unpinCalls, \* offsets passed to pinWasmMemory / unpinWasmMemory
    rfaults, rres,        \* readMap: simulated read failures; result (kind
                          \* "nil" for a nil data, "map" for a native mapping)
    capLen, caps, capPc,  \* the capacity loop run on its own
    szTyp, szOut, szPc,   \* the entry layout computation run on its own
    gtyp, gents, gcap,    \* a map built by the guest: type, entries in insertion
                          \* order, the entriesCapacity word of its header
    gidx,                 \* number of entries the guest has placed so far
    gheap, goff,          \* the guest's memory and the offset of the map header
    gres, gpc             \* result of readMap on the guest's map

inVars   == <<typ, data, kind>>
heapVars == <<mem, heapTop, allocs>>
capsVars == <<bucketsCapacity, entriesCapacity, bucketsMask>>
bufVars  == <<bucketsBufferOffset, entriesBufferOffset>>
loopVars == <<i, hashCode, ptr>>
retVars  == <<offset, err, retErr, deferIdx>>
pinVars  == <<pinned, pins, pinCalls>>
capVars  == <<capLen, caps, capPc>>
sizeVars == <<szTyp, szOut, szPc>>
guestVars == <<gtyp, gents, gcap, gidx, gheap, goff, gres, gpc>>
sideVars == <<capVars, sizeVars, guestVars>>

mainVars == <<pc, inVars, heapVars, capsVars, bufVars, loopVars, hdrField,
              retVars, pinVars, unpinCalls, rfaults, rres>>

vars == <<mainVars, sideVars>>

Heap == [mem |-> mem, heapTop |-> heapTop, allocs |-> allocs]

SetHeap(h) == mem' = h.mem /\ heapTop' = h.heapTop /\ allocs' = h.allocs

mapLen == Len(data)

entrySize == entrySizeOf(typ)

valueOffset == valueOffsetOf(typ)

taggedNextOffset == taggedNextOffsetOf(typ)

MainInit ==
    /\ pc = "idle"
    /\ typ = <<"i32", "i32">> /\ data = <<>> /\ kind = "map"
    /\ mem = [a \in Addr |-> 0] /\ heapTop = 0 /\ allocs = <<>>
    /\ pinned = {} /\ pins = <<>>
    /\ bucketsCapacity = 0 /\ entriesCapacity = 0 /\ bucketsMask = 0
    /\ bucketsBufferOffset = 0 /\ entriesBufferOffset = 0
    /\ i = 0 /\ hashCode = 0 /\ ptr = 0
    /\ hdrField = 0 /\ deferIdx = 1
    /\ offset = 0 /\ err = Nil /\ retErr = Nil
    /\ pinCalls = <<>> /\ unpinCalls = <<>>
    /\ rfaults = {} /\ rres = [kind |-> Nil, data |-> <<>>, err |-> Nil]

CapIdle == capLen = U32FromNat(0) /\ caps = InitialCaps /\ capPc = "off"

NoLayout == [entryAlign |-> 0, entrySize |-> 0, valueOffset |-> 0, taggedNextOffset |-> 0]

SizeIdle == szTyp = <<"i32", "i32">> /\ szOut = NoLayout /\ szPc = "off"

EmptyHeap == [mem |-> [a \in Addr |-> 0], heapTop |-> 0, allocs |-> <<>>]

NoResult == [kind |-> Nil, data |-> <<>>, err |-> Nil]

GuestIdle ==
    /\ gtyp = <<"i32", "i32">> /\ gents = <<>> /\ gcap = 0 /\ gidx = 0
    /\ gheap = EmptyHeap /\ goff = 0 /\ gres = NoResult /\ gpc = "off"

Init == MainInit /\ CapIdle /\ SizeIdle /\ GuestIdle

(***************************************************************************)
(* writeMap (maps.go 131-322), one action per step.  Every step that can  *)
(* fail takes its outcome from the environment.                           *)
(***************************************************************************)
\* return off, e: the results are set, then the deferred function runs.
Return(off, e) ==
    /\ offset' = off /\ err' = e /\ retErr' = e
    /\ deferIdx' = 1
    /\ pc' = IF pins = <<>> THEN "done" ELSE "defer"

\* rv.Kind() != reflect.Map
\* Mutant: the kind is looked at only after the buckets buffer is allocated.
RejectNonMapLate ==
    /\ pc = "idle"
    /\ \E t \in TypeNames \X TypeNames : typ' = t
    /\ data' = <<>>
    /\ \E k \in Kinds \ {"map"} : kind' = k
    /\ SetHeap(allocateWasmMemory(Heap, bucketSize * 4, ArrayBufferId).heap)
    /\ offset' = 0 /\ err' = "unsupported map type" /\ retErr' = "unsupported map type"
    /\ pc' = "done"
    /\ UNCHANGED <<sideVars, capsVars, bufVars, loopVars, hdrField, deferIdx,
                   pinVars, unpinCalls, rfaults, rres>>

RejectNonMap ==
    /\ pc = "idle"
    /\ \E t \in TypeNames \X TypeNames : typ' = t
    /\ data' = <<>>
    /\ \E k \in Kinds \ {"map"} : kind' = k
    /\ offset' = 0 /\ err' = "unsupported map type" /\ retErr' = "unsupported map type"
    /\ pc' = "done"
    /\ UNCHANGED <<sideVars, heapVars, capsVars, bufVars, loopVars, hdrField, deferIdx,
                   pinVars, unpinCalls, rfaults, rres>>

\* mapLen, pins, capacities and mask
Begin ==
    /\ pc = "idle"
    /\ \E t \in TypeNames \X TypeNames : \E d \in MapsOf(t) :
         LET c == CapLoop(InitialCaps, U32FromNat(Len(d))) IN
         /\ typ' = t /\ data' = d /\ kind' = "map"
         /\ bucketsCapacity' = U32ToNat(c.bucketsCapacity)
         /\ entriesCapacity' = U32ToNat(c.entriesCapacity)
         /\ bucketsMask' = U32ToNat(c.bucketsMask)
    /\ pins' = <<>>
    /\ pc' = "allocBuckets"
    /\ UNCHANGED <<sideVars, heapVars, bufVars, loopVars, hdrField, retVars, pinned, pinCalls,
                   unpinCalls, rfaults, rres>>

\* bucketsBufferSize := bucketSize * bucketsCapacity
bucketsBufferSize == bucketSize * bucketsCapacity

AllocBuckets ==
    /\ pc = "allocBuckets"
    /\ \E fault \in BOOLEAN :
         LET a == allocateWasmMemory(Heap, bucketsBufferSize, ArrayBufferId) IN
         IF fault \/ ~a.ok
         THEN /\ Return(0, "failed to allocate buckets")
              /\ UNCHANGED <<heapVars, bufVars>>
         ELSE /\ SetHeap(a.heap)
              /\ bucketsBufferOffset' = a.ptr
              /\ pc' = "pinBuckets"
              /\ UNCHANGED <<entriesBufferOffset, retVars>>
    /\ UNCHANGED <<sideVars, inVars, capsVars, loopVars, hdrField, pinVars, unpinCalls, rfaults, rres>>

\* Mutant: the pinned offset is not remembered for the deferred unpin.
PinForget(p, e, next) ==
    /\ pinCalls' = Append(pinCalls, p)
    /\ \E fault \in BOOLEAN :
         IF fault
         THEN Return(0, e) /\ UNCHANGED <<pinned, pins>>
         ELSE /\ pinned' = pinned \cup {p}
              /\ pins' = pins
              /\ pc' = next
              /\ UNCHANGED retVars

\* err = wa.pinWasmMemory(ctx, p); if err != nil { return 0, e }; pins = append(pins, p)
Pin(p, e, next) ==
    /\ pinCalls' = Append(pinCalls, p)
    /\ \E fault \in BOOLEAN :
         IF fault
         THEN Return(0, e) /\ UNCHANGED <<pinned, pins>>
         ELSE /\ pinned' = pinned \cup {p}
              /\ pins' = Append(pins, p)
              /\ pc' = next
              /\ UNCHANGED retVars

PinBuckets ==
    /\ pc = "pinBuckets"
    /\ Pin(bucketsBufferOffset, "failed to pin buckets", "allocEntries")
    /\ UNCHANGED <<sideVars, inVars, heapVars, capsVars, bufVars, loopVars, hdrField, unpinCalls, rfaults, rres>>

\* Mutant: the buffer is sized for the elements present, not for the capacity.
entriesBufferSizeForLen == entrySize * mapLen

\* entriesBufferSize := entrySize * entriesCapacity
entriesBufferSize == entrySize * entriesCapacity

AllocEntries ==
    /\ pc = "allocEntries"
    /\ \E fault \in BOOLEAN :
         LET a == allocateWasmMemory(Heap, entriesBufferSize, ArrayBufferId) IN
         IF fault \/ ~a.ok
         THEN /\ Return(0, "failed to allocate entries")
              /\ UNCHANGED <<heapVars, bufVars>>
         ELSE /\ SetHeap(a.heap)
              /\ entriesBufferOffset' = a.ptr
              /\ pc' = "pinEntries"
              /\ UNCHANGED <<bucketsBufferOffset, retVars>>
    /\ UNCHANGED <<sideVars, inVars, capsVars, loopVars, hdrField, pinVars, unpinCalls, rfaults, rres>>

PinEntries ==
    /\ pc = "pinEntries"
    /\ Pin(entriesBufferOffset, "failed to pin entries",
           IF mapLen = 0 THEN "typeDef" ELSE "writeKey")
    /\ UNCHANGED <<sideVars, inVars, heapVars, capsVars, bufVars, loopVars, hdrField, unpinCalls, rfaults, rres>>

entryOffset == entryOffsetOf(entriesBufferOffset, entrySize, i)

\* Mutant: the key allocation is not pinned.
afterKeyWriteNoPin(p) == "writeValue"

\* if ptr != 0 { pin it } (lines 236-243)
afterKeyWrite(p) == IF p # 0 THEN "pinKey" ELSE "writeValue"

\* the switch on the key's dynamic type, lines 209-234
WriteKey ==
    /\ pc = "writeKey"
    /\ LET key == data[i + 1][1] IN
       /\ hashCode' = GetHashCode(GetMapSubtypes(typ)[1], key)
       /\ IF IsString(GetMapSubtypes(typ)[1])
          THEN \E fault \in {"none", "bytes", "pointer"} :
                 LET a == writeRawBytes(Heap, EncodeUTF16(key), StringId)
                     w == WriteUint32Le(a.heap.mem, entryOffset, a.ptr)
                 IN IF fault = "bytes" \/ ~a.ok
                    THEN /\ Return(0, "failed to write map entry key")
                         /\ UNCHANGED <<heapVars, ptr>>
                    ELSE IF fault = "pointer" \/ ~w.ok
                    THEN /\ Return(0, "failed to write map entry key pointer")
                         /\ SetHeap(a.heap) /\ ptr' = a.ptr
                    ELSE /\ SetHeap([a.heap EXCEPT !.mem = w.mem])
                         /\ ptr' = a.ptr
                         /\ pc' = afterKeyWrite(a.ptr)
                         /\ UNCHANGED retVars
          ELSE \E fault \in BOOLEAN :
                 LET f == writeField(Heap, GetMapSubtypes(typ)[1], entryOffset, key)
                 IN IF fault \/ ~f.ok
                    THEN /\ Return(0, "failed to write map entry key")
                         /\ UNCHANGED <<heapVars, ptr>>
                    ELSE /\ SetHeap(f.heap)
                         /\ ptr' = f.ptr
                         /\ pc' = afterKeyWrite(f.ptr)
                         /\ UNCHANGED retVars
    /\ UNCHANGED <<sideVars, inVars, capsVars, bufVars, i, hdrField, pinVars, unpinCalls, rfaults, rres>>

PinKey ==
    /\ pc = "pinKey"
    /\ Pin(ptr, "failed to pin key", "writeValue")
    /\ UNCHANGED <<sideVars, inVars, heapVars, capsVars, bufVars, loopVars, hdrField, unpinCalls, rfaults, rres>>

WriteValue ==
    /\ pc = "writeValue"
    /\ \E fault \in BOOLEAN :
         LET f == writeField(Heap, GetMapSubtypes(typ)[2], entryOffset + valueOffset,
                             data[i + 1][2])
         IN IF fault \/ ~f.ok
            THEN /\ Return(0, "failed to write map entry value")
                 /\ UNCHANGED <<heapVars, ptr>>
            ELSE /\ SetHeap(f.heap)
                 /\ ptr' = f.ptr
                 /\ pc' = IF f.ptr # 0 THEN "pinValue" ELSE "link"
                 /\ UNCHANGED retVars
    /\ UNCHANGED <<sideVars, inVars, capsVars, bufVars, i, hashCode, hdrField, pinVars,
                   unpinCalls, rfaults, rres>>

PinValue ==
    /\ pc = "pinValue"
    /\ Pin(ptr, "failed to pin value", "link")
    /\ UNCHANGED <<sideVars, inVars, heapVars, capsVars, bufVars, loopVars, hdrField, unpinCalls, rfaults, rres>>

bucketPtrBase == bucketsBufferOffset + BitAnd(hashCode, bucketsMask) * bucketSize

\* write to bucket and "tagged next" field, lines 263-276
LinkEntry ==
    /\ pc = "link"
    /\ \E fault \in {"none", "read", "next", "bucket"} :
         LET prev == ReadUint32Le(mem, bucketPtrBase)
             n    == WriteUint32Le(mem, entryOffset + taggedNextOffset, prev.v)
             b    == WriteUint32Le(n.mem, bucketPtrBase, entryOffset)
         IN IF fault = "read" \/ ~prev.ok
            THEN /\ Return(0, "failed to read previous map entry bucket pointer")
                 /\ UNCHANGED <<mem, i>>
            ELSE IF fault = "next" \/ ~n.ok
            THEN /\ Return(0, "failed to write map entry tagged next field")
                 /\ UNCHANGED <<mem, i>>
            ELSE IF fault = "bucket" \/ ~b.ok
            THEN /\ Return(0, "failed to write map entry bucket pointer")
                 /\ mem' = n.mem
                 /\ UNCHANGED i
            ELSE /\ mem' = b.mem
                 /\ i' = i + 1
                 /\ pc' = IF i + 1 < mapLen THEN "writeKey" ELSE "typeDef"
                 /\ UNCHANGED retVars
    /\ UNCHANGED <<sideVars, inVars, heapTop, allocs, capsVars, bufVars, hashCode, ptr, hdrField,
                   pinVars, unpinCalls, rfaults, rres>>

GetTypeDefinition ==
    /\ pc = "typeDef"
    /\ \E fault \in BOOLEAN :
         IF fault THEN Return(0, "type definition not found")
         ELSE pc' = "allocHeader" /\ UNCHANGED retVars
    /\ UNCHANGED <<sideVars, inVars, heapVars, capsVars, bufVars, loopVars, hdrField, pinVars,
                   unpinCalls, rfaults, rres>>

\* const size = 24
size == 24

AllocHeader ==
    /\ pc = "allocHeader"
    /\ \E fault \in BOOLEAN :
         LET a == allocateWasmMemory(Heap, size, MapTypeId(typ)) IN
         IF fault \/ ~a.ok
         THEN /\ Return(0, "failed to allocate header")
              /\ UNCHANGED <<heapVars, hdrField>>
         ELSE /\ SetHeap(a.heap)
              /\ offset' = a.ptr
              /\ hdrField' = 0
              /\ pc' = "writeHeader"
              /\ UNCHANGED <<err, retErr, deferIdx>>
    /\ UNCHANGED <<sideVars, inVars, capsVars, bufVars, loopVars, pinVars, unpinCalls, rfaults, rres>>

\* Mutant: entriesOffset is left at 0.
headerValuesNoOffset ==
    <<bucketsBufferOffset, bucketsMask, entriesBufferOffset, entriesCapacity, 0, mapLen>>

headerValues ==
    <<bucketsBufferOffset, bucketsMask, entriesBufferOffset, entriesCapacity, mapLen, mapLen>>

headerErrors ==
    <<"failed to write map buckets pointer", "failed to write map buckets mask",
      "failed to write map entries pointer", "failed to write map entries capacity",
      "failed to write map entries offset", "failed to write map entries count">>

\* lines 291-321: the six fields in turn, then return offset, nil
WriteHeaderField ==
    /\ pc = "writeHeader"
    /\ \E fault \in BOOLEAN :
         LET w == WriteUint32Le(mem, offset + 4 * hdrField, headerValues[hdrField + 1]) IN
         IF fault \/ ~w.ok
         THEN /\ Return(0, headerErrors[hdrField + 1])
              /\ UNCHANGED <<mem, hdrField>>
         ELSE /\ mem' = w.mem
              /\ hdrField' = hdrField + 1
              /\ IF hdrField = 5 THEN Return(offset, Nil)
                 ELSE UNCHANGED <<pc, retVars>>
    /\ UNCHANGED <<sideVars, inVars, heapTop, allocs, capsVars, bufVars, loopVars, pinVars,
                   unpinCalls, rfaults, rres>>

\* the deferred function, lines 143-150: one iteration of its loop
DeferredUnpin ==
    /\ pc = "defer"
    /\ unpinCalls' = Append(unpinCalls, pins[deferIdx])
    /\ \E fault \in BOOLEAN :
         /\ err' = IF fault THEN "failed to unpin" ELSE Nil
         /\ pinned' = IF fault THEN pinned ELSE pinned \ {pins[deferIdx]}
         /\ IF fault \/ deferIdx = Len(pins)
            THEN pc' = "done" /\ UNCHANGED deferIdx
            ELSE deferIdx' = deferIdx + 1 /\ UNCHANGED pc
    /\ UNCHANGED <<sideVars, inVars, heapVars, capsVars, bufVars, loopVars, hdrField, offset, retErr,
                   pins, pinCalls, rfaults, rres>>

\* Largest number of read points failing in one readMap call.
MaxFaults == 2

\* The caller reads back the map it was handed (a nil offset is never read).
ReadMap ==
    /\ pc = "done" /\ err = Nil /\ offset # 0
    /\ \E faults \in { f \in SUBSET ReadPoints : Cardinality(f) <= MaxFaults } :
         rfaults' = faults /\ rres' = readMap(mem, typ, offset, faults)
    /\ pc' = "read"
    /\ UNCHANGED <<sideVars, inVars, heapVars, capsVars, bufVars, loopVars, hdrField, retVars,
                   pinVars, unpinCalls>>

Next ==
    \/ RejectNonMap \/ Begin
    \/ AllocBuckets \/ PinBuckets \/ AllocEntries \/ PinEntries
    \/ WriteKey \/ PinKey \/ WriteValue \/ PinValue \/ LinkEntry
    \/ GetTypeDefinition \/ AllocHeader \/ WriteHeaderField
    \/ DeferredUnpin \/ ReadMap

Spec == Init /\ [][Next]_vars

(***************************************************************************)
(* The capacity loop on its own, over small counts and over counts at    *)
(* which uint32 arithmetic wraps.                                         *)
(***************************************************************************)
CapInit == MainInit /\ SizeIdle /\ GuestIdle /\ capLen \in CapCounts /\ caps = InitialCaps /\ capPc = "loop"

CapStep ==
    /\ capPc = "loop"
    /\ CapLoopCond(caps, capLen)
    /\ caps' = CapLoopBody(caps)
    /\ UNCHANGED <<capLen, capPc, mainVars, sizeVars, guestVars>>

CapExit ==
    /\ capPc = "loop"
    /\ ~CapLoopCond(caps, capLen)
    /\ capPc' = "done"
    /\ UNCHANGED <<capLen, caps, mainVars, sizeVars, guestVars>>

CapNext == CapStep \/ CapExit

CapSpec == CapInit /\ [][CapNext]_vars

(***************************************************************************)
(* The entry layout computation of writeMap (maps.go 180-185, 200-201) and *)
(* getSizeForOffset (324-333), run on every pair of type names.           *)
(***************************************************************************)
SizeInit ==
    /\ MainInit /\ CapIdle /\ GuestIdle
    /\ szTyp \in SizeTypes \X SizeTypes /\ szOut = NoLayout /\ szPc = "sizes"

\* lines 180-185
SizeEntry ==
    /\ szPc = "sizes"
    /\ szOut' = [szOut EXCEPT !.entryAlign = entryAlignOf(szTyp),
                              !.entrySize = entrySizeOf(szTyp)]
    /\ szPc' = "offsets"
    /\ UNCHANGED <<szTyp, mainVars, capVars, guestVars>>

\* lines 200-201
SizeOffsets ==
    /\ szPc = "offsets"
    /\ szOut' = [szOut EXCEPT !.valueOffset = valueOffsetOf(szTyp),
                              !.taggedNextOffset = taggedNextOffsetOf(szTyp)]
    /\ szPc' = "done"
    /\ UNCHANGED <<szTyp, mainVars, capVars, guestVars>>

SizeNext == SizeEntry \/ SizeOffsets

SizeSpec == SizeInit /\ [][SizeNext]_vars

(***************************************************************************)
(* readMap on a map object the guest built.  The guest lays the object    *)
(* out as the data model describes: a buckets buffer, an entries buffer   *)
(* of entriesCapacity slots filled in insertion order, a 24-byte header.  *)
(* The entriesCapacity word of the header is the guest's to write.        *)
(***************************************************************************)
GuestTypes == {"ArrayBuffer", "i32", "string"} \X {"i32", "u64"}

\* Slots of the entries buffer (and buckets) of a small guest map: the
\* initial capacity.
GuestCapacity == U32ToNat(InitialCaps.entriesCapacity)

\* The guest's maps: keys are distinct unless they are references to buffers,
\* which may hold equal bytes.
GuestEntries(t) ==
    { s \in UNION { [1..n -> ValuesOf(t[1]) \X PayloadsOf(t[2])] : n \in 0..MaxEntries } :
        Comparable(t[1]) => DistinctKeys(s) }

\* The six header words as bytes.
RECURSIVE guestWords(_)
guestWords(ws) ==
    IF ws = <<>> THEN <<>> ELSE LEBytes(ws[1], 4) \o guestWords(Tail(ws))

\* The guest creates the map: buckets buffer and entries buffer.
GuestAlloc ==
    /\ gpc = "guest"
    /\ \E t \in GuestTypes : \E ents \in GuestEntries(t) : \E c \in {0, GuestCapacity} :
          LET b == allocateWasmMemory(EmptyHeap, bucketSize * GuestCapacity, ArrayBufferId)
              e == allocateWasmMemory(b.heap, entrySizeOf(t) * GuestCapacity, ArrayBufferId)
          IN /\ b.ok /\ e.ok
             /\ gtyp' = t /\ gents' = ents /\ gcap' = c
             /\ gheap' = e.heap
    /\ gidx' = 0
    /\ gpc' = "put"
    /\ UNCHANGED <<goff, gres, mainVars, capVars, sizeVars>>

\* The guest appends its next entry to the entries buffer.
GuestPut ==
    /\ gpc = "put" /\ gidx < Len(gents)
    /\ LET p == gheap.allocs[2].ptr + gidx * entrySizeOf(gtyp)
           k == writeField(gheap, gtyp[1], p, gents[gidx + 1][1])
           v == writeField(k.heap, gtyp[2], p + valueOffsetOf(gtyp), gents[gidx + 1][2])
       IN /\ k.ok /\ v.ok
          /\ gheap' = v.heap
    /\ gidx' = gidx + 1
    /\ UNCHANGED <<gtyp, gents, gcap, goff, gres, gpc, mainVars, capVars, sizeVars>>

\* The map object itself, with the entriesCapacity word the guest chose.
GuestHeader ==
    /\ gpc = "put" /\ gidx = Len(gents)
    /\ LET o == allocateWasmMemory(gheap, 24, MapTypeId(gtyp))
       IN /\ o.ok
          /\ goff' = o.ptr
          /\ gheap' = [o.heap EXCEPT !.mem =
                          WriteBytes(o.heap.mem, o.ptr,
                                     guestWords(<<gheap.allocs[1].ptr, GuestCapacity - 1,
                                                  gheap.allocs[2].ptr, gcap,
                                                  Len(gents), Len(gents)>>))]
    /\ gpc' = "built"
    /\ UNCHANGED <<gtyp, gents, gcap, gidx, gres, mainVars, capVars, sizeVars>>

ReadGuestMap ==
    /\ gpc = "built"
    /\ gres' = readMap(gheap.mem, gtyp, goff, {})
    /\ gpc' = "read"
    /\ UNCHANGED <<gtyp, gents, gcap, gidx, gheap, goff, mainVars, capVars, sizeVars>>

GuestInit ==
    /\ MainInit /\ CapIdle /\ SizeIdle
    /\ gtyp = <<"i32", "i32">> /\ gents = <<>> /\ gcap = 0 /\ gidx = 0
    /\ gheap = EmptyHeap /\ goff = 0 /\ gres = NoResult /\ gpc = "guest"

GuestNext == GuestAlloc \/ GuestPut \/ GuestHeader \/ ReadGuestMap

GuestSpec == GuestInit /\ [][GuestNext]_vars

(***************************************************************************)
(* Properties.                                                            *)
(***************************************************************************)
Range(q) == { q[j] : j \in DOMAIN q }

Count(q, x) == Cardinality({ j \in DOMAIN q : q[j] = x })

Returned == pc \in {"done", "read"} /\ kind = "map"

\* C1: when writeMap fails after at least one buffer has been pinned, the error
\* it returns is the primary error of the failing step; the deferred unpin loop
\* replaces it neither by nil nor by an unpin error.
C1_PrimaryErrorKept ==
    (Returned /\ retErr # Nil /\ pins # <<>>) => err = retErr

\* C2: when writeMap has returned, unpin has been called on every offset that
\* was pinned during the call, also when one of the unpins failed.
C2_AllPinsReleased ==
    Returned => \A p \in Range(pins) : p \in Range(unpinCalls)

\* C3: reading back, without read failures, the header offset a successful
\* writeMap returned yields a native mapping with exactly the pairs written.
C3_RoundTrip ==
    (pc = "read" /\ rfaults = {}) => rres = [kind |-> "map", data |-> AsMapping(data), err |-> Nil]

C3_Witness ==
    /\ pc = "read" /\ rfaults = {}
    /\ Len(data) = MaxEntries
    /\ typ = <<"string", "u64">>
    /\ rres.err = Nil /\ Cardinality(DOMAIN rres.data) = MaxEntries

\* Entries of the pass so far whose bucket link has been written.
Written == 0..(i - 1)

InLoop == kind = "map" /\ pc \notin {"idle", "allocBuckets", "pinBuckets", "allocEntries", "pinEntries"}

SlotOf(j) == entryOffsetOf(entriesBufferOffset, entrySize, j)

BucketOf(j) == BitAnd(GetHashCode(GetMapSubtypes(typ)[1], data[j + 1][1]), bucketsMask)

\* The entries written before j (or all written ones, for j = i) in bucket b.
EarlierIn(b, j) == { k \in Written : k < j /\ BucketOf(k) = b }

Latest(S) == CHOOSE k \in S : \A l \in S : l <= k

LinkTo(S) == IF S = {} THEN 0 ELSE SlotOf(Latest(S))

HeadWord(b) == ReadUint32Le(mem, bucketsBufferOffset + bucketSize * b).v

NextWord(j) == ReadUint32Le(mem, SlotOf(j) + taggedNextOffset).v

\* C4: after any prefix of the entries has been processed, each bucket head is
\* the offset of the most recently written entry of that bucket (0 if none) and
\* each written entry's taggedNext is the offset of the entry written before it
\* in the same bucket (0 for the first): chains are LIFO and end at 0.
C4_ChainsLIFO ==
    InLoop =>
        /\ \A b \in 0..bucketsMask : HeadWord(b) = LinkTo(EarlierIn(b, i))
        /\ \A j \in Written : NextWord(j) = LinkTo(EarlierIn(BucketOf(j), j))

Bytes(from, n) == from..(from + n - 1)

KeyBytes(j) == Bytes(SlotOf(j), GetSizeOfType(GetMapSubtypes(typ)[1]))

ValueBytes(j) == Bytes(SlotOf(j) + valueOffset, GetSizeOfType(GetMapSubtypes(typ)[2]))

NextBytes(j) == Bytes(SlotOf(j) + taggedNextOffset, taggedNextSize)

\* C6: entry j is placed at entriesPtr + j*entrySize and the bytes written for
\* it (key, value, taggedNext) are pairwise disjoint and lie inside its own
\* slot, hence touch no other entry and nothing beyond the entries buffer.
C6_EntryWritesInSlot ==
    InLoop => \A j \in Written :
        /\ KeyBytes(j) \cap ValueBytes(j) = {}
        /\ KeyBytes(j) \cap NextBytes(j) = {}
        /\ ValueBytes(j) \cap NextBytes(j) = {}
        /\ (KeyBytes(j) \cup ValueBytes(j) \cup NextBytes(j))
              \subseteq Bytes(entriesBufferOffset + j * entrySize, entrySize)

\* Key and value sizes for which the taggedNext word fits the entry.
FitsEntry(t) == taggedNextOffsetOf(t) + taggedNextSize <= entrySizeOf(t)

\* The chain and slot properties hold whenever the taggedNext word fits the
\* entry, which is the case exactly when key and value sizes sum to more than 4.
Aux_C4_WhenFits == FitsEntry(typ) => C4_ChainsLIFO

Aux_C6_WhenFits == FitsEntry(typ) => C6_EntryWritesInSlot

Aux_FitsIffNotBothSmall ==
    FitsEntry(typ) <=> (GetSizeOfType(typ[1]) + GetSizeOfType(typ[2]) > 4)

C6_Witness == InLoop /\ FitsEntry(typ) /\ i = MaxEntries

\* Exact (unbounded) arithmetic on the counts that fit TLC's integers.
IsPow2(n) == \E k \in 0..30 : n = 2^k

SmallestPow2AtLeast(bc, n) ==
    /\ IsPow2(bc) /\ bc >= 4 /\ bc >= n
    /\ (bc = 4 \/ bc \div 2 < n)

\* bc * 8 / 3 without forming bc * 8
EightThirds(bc) == 2 * bc + (2 * bc) \div 3

CapResult == [n   |-> U32ToNat(capLen),
              bc  |-> U32ToNat(caps.bucketsCapacity),
              ec  |-> U32ToNat(caps.entriesCapacity),
              msk |-> U32ToNat(caps.bucketsMask)]

\* C5 as stated: for every count the loop leaves bucketsCapacity the smallest
\* power of two >= count (at least 4), bucketsMask = bucketsCapacity - 1 and
\* entriesCapacity = bucketsCapacity * 8 / 3, also for the initial capacity 4.
C5_AsStated ==
    (capPc = "done" /\ U32Fits(capLen) /\ U32ToNat(capLen) <= MaxCount) =>
        /\ SmallestPow2AtLeast(CapResult.bc, CapResult.n)
        /\ CapResult.msk = CapResult.bc - 1
        /\ CapResult.ec = EightThirds(CapResult.bc)

\* C5 amended: for every count up to 2^28, bucketsCapacity is the smallest
\* power of two >= count (at least 4), bucketsMask = bucketsCapacity - 1, and
\* entriesCapacity is 4 for counts up to 4 and bucketsCapacity * 8 / 3 above.
C5_CapacityGrowth ==
    (capPc = "done" /\ ~U32Lt(Pow2U32(28), capLen)) =>
        /\ SmallestPow2AtLeast(CapResult.bc, CapResult.n)
        /\ CapResult.msk = CapResult.bc - 1
        /\ CapResult.ec = IF CapResult.n <= 4 THEN 4 ELSE EightThirds(CapResult.bc)

C5_Witness ==
    /\ capPc = "done" /\ capLen = U32FromNat(17)
    /\ caps.bucketsCapacity = U32FromNat(32) /\ caps.entriesCapacity = U32FromNat(85)

FieldError(f) ==
    CASE f = 0  -> "failed to read map buckets pointer"
      [] f = 4  -> "failed to read map buckets mask"
      [] f = 8  -> "failed to read map entries pointer"
      [] f = 12 -> "failed to read map entries capacity"
      [] f = 16 -> "failed to read map entries offset"
      [] f = 20 -> "failed to read map entries count"

\* C7 as stated: a failing read at any of the six header fields makes readMap
\* return an error naming that field, and nil data.
C7_AsStated ==
    pc = "read" => \A f \in HeaderFields :
        rfaults = {f} => (rres.err = FieldError(f) /\ rres.kind = Nil)

\* The header fields readMap reads, in the order it reads them.
FieldsRead == <<8, 12, 20>>

\* C7 amended: for each of the three header fields readMap reads (entriesPtr
\* +8, entriesCapacity +12, entriesCount +20, in this order), a failing read at
\* that field with the reads before it succeeding makes readMap return an error
\* naming that field, and nil data; bucketsPtr +0, bucketsMask +4 and
\* entriesOffset +16 are never read, so a failure there alone changes nothing.
C7_ReadFaults ==
    pc = "read" =>
        /\ \A n \in 1..3 :
             (FieldsRead[n] \in rfaults /\ \A k \in 1..(n - 1) : FieldsRead[k] \notin rfaults)
                 => (rres.err = FieldError(FieldsRead[n]) /\ rres.kind = Nil)
        /\ (rfaults \subseteq {0, 4, 16}) => (rres.err = Nil /\ rres.kind = "map")

C7_Witness ==
    pc = "read" /\ rfaults = {12, 20} /\ rres.err = FieldError(12) /\ rres.kind = Nil

\* writeMap ran to "return offset, nil" and every unpin succeeded.
NoFailure == Returned /\ retErr = Nil /\ err = Nil

\* Key and value encodings of the call that return an allocated pointer.
AllocatingEncodings ==
    (IF IsString(GetMapSubtypes(typ)[1]) THEN mapLen ELSE 0)
      + (IF IsString(GetMapSubtypes(typ)[2]) THEN mapLen ELSE 0)

\* C8: in a writeMap call in which nothing fails, pin is called 2 + (number of
\* key and value encodings that allocated) times, never on the header offset,
\* and every pinned offset is unpinned exactly once before the call returns.
C8_PinUnpinBalance ==
    NoFailure =>
        /\ Len(pinCalls) = 2 + AllocatingEncodings
        /\ offset \notin Range(pinCalls)
        /\ \A p \in Range(pinCalls) : Count(pinCalls, p) = 1 /\ Count(unpinCalls, p) = 1
        /\ Range(unpinCalls) \subseteq Range(pinCalls)
        /\ pinned = {}

C8_Witness ==
    NoFailure /\ typ = <<"string", "string">> /\ mapLen = MaxEntries /\ Len(unpinCalls) = 2 + 2 * MaxEntries

\* C9: whenever writeMap allocates, every block it allocated earlier in the
\* call is pinned at that moment; and no block is unpinned before all six
\* header fields are written or the call has failed.
C9_PinnedAcrossAllocations ==
    [][ /\ (Len(allocs') > Len(allocs)) =>
              \A k \in 1..Len(allocs) : allocs[k].ptr \in pinned
        /\ (pinned \ pinned' # {}) => (hdrField = 6 \/ retErr # Nil) ]_vars

C9_Witness ==
    /\ pc = "writeHeader" /\ typ = <<"string", "string">> /\ mapLen = MaxEntries
    /\ Len(allocs) = 3 + 2 * MaxEntries
    /\ \A k \in 1..(Len(allocs) - 1) : allocs[k].ptr \in pinned

HeaderWord(f) == ReadUint32Le(mem, offset + f).v

\* C10: writeMap returns either the offset of a fully populated header with a
\* nil error, or offset 0 with a non-nil error, and nothing else.
C10_NoPartialSuccess ==
    Returned =>
        \/ /\ err = Nil /\ offset # 0 /\ hdrField = 6
           /\ \A f \in 0..5 : HeaderWord(4 * f) = headerValues[f + 1]
        \/ err # Nil /\ offset = 0

\* C11: after a writeMap call on N entries in which nothing fails, the returned
\* offset is that of a 24-byte block allocated with the map type's id, and its
\* words are bucketsPtr (+0) = buckets buffer, bucketsMask (+4) =
\* bucketsCapacity - 1, entriesPtr (+8) = entries buffer, entriesCapacity (+12),
\* entriesOffset (+16) = N and entriesCount (+20) = N.
C11_HeaderPostcondition ==
    NoFailure =>
        /\ allocs[Len(allocs)] = [ptr |-> offset, size |-> 24, id |-> MapTypeId(typ)]
        /\ allocs[1].size = 4 * bucketsCapacity /\ allocs[1].id = ArrayBufferId
        /\ HeaderWord(0) = allocs[1].ptr
        /\ HeaderWord(4) = bucketsCapacity - 1
        /\ HeaderWord(8) = allocs[2].ptr
        /\ HeaderWord(12) = entriesCapacity
        /\ HeaderWord(16) = Len(data)
        /\ HeaderWord(20) = Len(data)

C11_Witness ==
    NoFailure /\ Len(data) = MaxEntries /\ HeaderWord(16) = MaxEntries /\ HeaderWord(12) = 4

\* keySize + valueSize + 4 rounded up to the next multiple of a
RoundUp(n, a) == ((n + a - 1) \div a) * a

WideTypes == {"u64", "i64", "f64"}

\* C12: for every key and value type, the entrySize writeMap uses is
\* keySize + valueSize + 4 rounded up to the next multiple of
\* max(keySize, valueSize, 4), giving 12, 16, 16, 24 for the size pairs (4,4),
\* (4,8), (8,4), (8,8); getSizeForOffset is 8 exactly for u64, i64, f64 and 4
\* for every other type.
C12_EntrySize ==
    LET ks == GetSizeOfType(szTyp[1])
        vs == GetSizeOfType(szTyp[2])
    IN /\ szPc \in {"offsets", "done"} =>
            /\ szOut.entrySize = RoundUp(ks + vs + 4, Max3(ks, vs, 4))
            /\ (ks = 4 /\ vs = 4) => szOut.entrySize = 12
            /\ (ks = 4 /\ vs = 8) => szOut.entrySize = 16
            /\ (ks = 8 /\ vs = 4) => szOut.entrySize = 16
            /\ (ks = 8 /\ vs = 8) => szOut.entrySize = 24
       /\ szPc = "done" =>
            /\ szOut.valueOffset = (IF szTyp[1] \in WideTypes THEN 8 ELSE 4)
            /\ szOut.taggedNextOffset - szOut.valueOffset
                  = (IF szTyp[2] \in WideTypes THEN 8 ELSE 4)

C12_Witness ==
    /\ szPc = "done" /\ szTyp = <<"f64", "i64">>
    /\ szOut.entrySize = 24 /\ szOut.valueOffset = 8 /\ szOut.taggedNextOffset = 16

\* The header words and entry fields of the guest's map, as they are in memory.
GuestWord(f) == ReadUint32Le(gheap.mem, goff + f).v

GuestStride == ReadUint32Le(gheap.mem, GuestWord(8) - 4).v \div GuestWord(12)

GuestKeyAt(j) == readField(gheap.mem, gtyp[1], GuestWord(8) + j * GuestStride).v

GuestValueAt(j) ==
    readField(gheap.mem, gtyp[2],
              GuestWord(8) + j * GuestStride + getSizeForOffset(gtyp[1])).v

\* C13: readMap (when it returns without error, as it does for a guest map with
\* a nonzero entriesCapacity) gives, for a key type that is not comparable on
\* the host, the map-data wrapper of an ordered pair list whose length is the
\* header's entriesCount and whose i-th pair is decoded from the entry at
\* entriesPtr + i*entrySize, so the list is the guest's entries in insertion
\* order; for a comparable key type it gives a native mapping.
C13_PairListFallback ==
    /\ (gpc = "read" /\ gcap # 0) => gres.err = Nil
    /\ (gpc = "read" /\ gres.err = Nil) =>
          IF Comparable(gtyp[1])
          THEN gres.kind = "map" /\ gres.data = AsMapping(gents)
          ELSE /\ gres.kind = "mapdata"
               /\ Len(gres.data) = GuestWord(20)
               /\ \A j \in 1..Len(gres.data) :
                     gres.data[j] = <<GuestKeyAt(j - 1), GuestValueAt(j - 1)>>
               /\ gres.data = gents

C13_Witness ==
    /\ gpc = "read" /\ gres.err = Nil /\ ~Comparable(gtyp[1])
    /\ gres.kind = "mapdata" /\ Len(gres.data) = MaxEntries
    /\ gres.data[1][1] = gres.data[2][1] /\ gres.data[1][2] # gres.data[2][2]

\* C14: a host value that is not a native mapping (a struct such as the
\* pair-list wrapper, a slice) is rejected with an error and offset 0 before any
\* effect on the guest: nothing is allocated, pinned or unpinned and no byte of
\* guest memory is written.
C14_RejectBeforeEffect ==
    (pc # "idle" /\ kind # "map") =>
        /\ pc = "done" /\ offset = 0 /\ err # Nil /\ retErr # Nil
        /\ allocs = <<>> /\ heapTop = 0
        /\ pinCalls = <<>> /\ unpinCalls = <<>> /\ pinned = {} /\ pins = <<>>
        /\ \A a \in Addr : mem[a] = 0

C14_Witness ==
    pc = "done" /\ kind = "struct" /\ offset = 0 /\ err = "unsupported map type"

\* The stride and value offset readMap derives from the written header.
ReaderStride ==
    readHeader(mem, offset, {}).h.byteLength \div readHeader(mem, offset, {}).h.entriesCapacity

ReaderValueOffset == getSizeForOffset(GetMapSubtypes(typ)[1])

\* C15: writeMap requests 4 * bucketsCapacity bytes for the buckets buffer and
\* entrySize * entriesCapacity bytes for the entries buffer, the allocator
\* stores that byte length in the word in front of the buffer, and so, for the
\* map writeMap returned, the stride byteLength / entriesCapacity of readMap is
\* the writer's entrySize and the reader's value offset is the writer's.
C15_StrideAgreement ==
    /\ (kind = "map" /\ Len(allocs) >= 1) =>
          allocs[1] = [ptr |-> bucketsBufferOffset, size |-> 4 * bucketsCapacity,
                       id |-> ArrayBufferId]
    /\ (kind = "map" /\ Len(allocs) >= 2) =>
          /\ allocs[2] = [ptr |-> entriesBufferOffset, size |-> entrySize * entriesCapacity,
                          id |-> ArrayBufferId]
          /\ ReadUint32Le(mem, entriesBufferOffset - 4).v = entrySize * entriesCapacity
    /\ NoFailure =>
          /\ readHeader(mem, offset, {}).err = Nil
          /\ ReaderStride = entrySize
          /\ ReaderValueOffset = valueOffset

C15_Witness ==
    /\ NoFailure /\ typ = <<"u64", "u8">> /\ Len(data) = MaxEntries
    /\ ReaderStride = 16 /\ ReaderValueOffset = 8

\* The call did not return: the run-time panic of an integer division by zero
\* unwinds readMap (it has no recover).
Aborted(r) == r.err = "panic: integer divide by zero"

\* C16: readMap ends in a returned value or a returned error for every readable
\* header; when the entriesCapacity word is 0 and entriesPtr and the length
\* word are readable it returns an error or an empty result and does not abort
\* in byteLength / entriesCapacity.
C16_ReadMapReturns ==
    gpc = "read" =>
        /\ ~Aborted(gres)
        /\ gcap = 0 => (gres.err # Nil \/ gres.data = <<>>)

\* a <= b on uint32
U32Le(a, b) == ~U32Lt(b, a)

\* The product of a uint32 and a small factor is below 2^32.
U32MulFits(a, k) == a[1] * k + (a[2] * k) \div Limb < Limb

EntrySizes == { entrySizeOf(t) : t \in SizeTypes \X SizeTypes }

\* C17: for every element count N of 32 bits the doubling loop comes to an end
\* with bucketsCapacity >= N and entriesCapacity >= N, and no step wraps: in
\* every iteration bucketsCapacity << 1 is larger than bucketsCapacity and
\* times 8 is not smaller, and at the end entrySize * entriesCapacity is below
\* 2^32 for every entry size.
C17_NoWraparound ==
    /\ (capPc = "loop" /\ CapLoopCond(caps, capLen)) =>
          /\ U32Lt(caps.bucketsCapacity, U32Shl1(caps.bucketsCapacity))
          /\ U32Le(U32Shl1(caps.bucketsCapacity), U32Mul8(U32Shl1(caps.bucketsCapacity)))
    /\ capPc = "done" =>
          /\ U32Le(capLen, caps.bucketsCapacity)
          /\ U32Le(capLen, caps.entriesCapacity)
          /\ \A es \in EntrySizes : U32MulFits(caps.entriesCapacity, es)

====
